---------------------------- MODULE Spec2Model ----------------------------
(***************************************************************************)
(* DCC Custom Class Sheet: the skill-name parser (init.js, utils.js), the  *)
(* grouping and naming-record resolution of utils.js, the group order of   *)
(* the sheet's _prepareContext and the class builder of class-builder.js.  *)
(*                                                                         *)
(* A JavaScript string is a sequence of one-character strings, so that the *)
(* regular expressions, trim, toLowerCase, parseInt and localeCompare are  *)
(* computed character by character.                                        *)
(***************************************************************************)
EXTENDS Integers, Sequences, FiniteSets, TLC

VARIABLES
    name,       \* SpecParse: the string handed to the two parsers
    ret,        \* SpecParse: the last parser call and what it returned
    items,      \* actor.items: the actor's embedded records, in collection order
    out,        \* the last engine call on the actor and what it returned
    wizard,     \* the CustomClassBuilder dialog launched from the sheet
    calls       \* the _createClass invocations and the folder each one made

vars == <<name, ret, items, out, wizard, calls>>

-----------------------------------------------------------------------------
(* Bounds of the model *)

\* longest free-form name over Alphabet
MaxNameLen == 4
\* most records of the actor that groupActorSkills is run on
MaxItems == 3
\* most records of the actor that getCustomClassLabel is run on
MaxLabelItems == 3
\* most records of the actor whose sheet is prepared
MaxSheetItems == 4
\* most records of the actor that getCustomClassIcon is run on
MaxIconItems == 2
\* most skills of the class builder, and the last id it hands out
MaxSkills == 2
MaxSkillId == 3
\* how far the step of the class builder is followed below 1 and above 3
MaxStepDrift == 1
\* most skills of a class builder whose class is created, and the last id
MaxBuilderSkills == 1
MaxBuilderSkillId == 1
\* most _createClass invocations
MaxCreateCalls == 2

-----------------------------------------------------------------------------
(* Characters and the String.prototype methods the code calls *)

Upper == <<"A", "B", "C", "D", "E", "F", "G", "H", "I", "J", "K", "L", "M",
           "N", "O", "P", "Q", "R", "S", "T", "U", "V", "W", "X", "Y", "Z">>
Lower == <<"a", "b", "c", "d", "e", "f", "g", "h", "i", "j", "k", "l", "m",
           "n", "o", "p", "q", "r", "s", "t", "u", "v", "w", "x", "y", "z">>
Digits == <<"0", "1", "2", "3", "4", "5", "6", "7", "8", "9">>

\* regular expression \s, also what trim() strips
IsWhiteSpace(c) == c \in {" ", "\t", "\n", "\r"}
\* what the regular expression . does not match
IsLineTerminator(c) == c \in {"\n", "\r"}
\* regular expression \d
IsDigit(c) == \E i \in 1..10 : Digits[i] = c
DigitValue(c) == (CHOOSE i \in 1..10 : Digits[i] = c) - 1

\* the lower-case letter of each upper-case letter
LowerOf == [c \in {Upper[i] : i \in 1..26} |-> Lower[CHOOSE i \in 1..26 : Upper[i] = c]]

ToLowerChar(c) == IF c \in DOMAIN LowerOf THEN LowerOf[c] ELSE c

\* String.prototype.toLowerCase
toLowerCase(s) == [i \in 1..Len(s) |-> ToLowerChar(s[i])]

SetMin(S) == CHOOSE x \in S : \A y \in S : x <= y
SetMax(S) == CHOOSE x \in S : \A y \in S : x >= y

\* how many characters a greedy \s*, \d* or [^)]* takes in s at position p
RECURSIVE BlankRun(_, _)
BlankRun(s, p) ==
    IF p <= Len(s) /\ IsWhiteSpace(s[p]) THEN 1 + BlankRun(s, p + 1) ELSE 0

RECURSIVE DigitRun(_, _)
DigitRun(s, p) ==
    IF p <= Len(s) /\ IsDigit(s[p]) THEN 1 + DigitRun(s, p + 1) ELSE 0

RECURSIVE NotCloseRun(_, _)
NotCloseRun(s, p) ==
    IF p <= Len(s) /\ s[p] # ")" THEN 1 + NotCloseRun(s, p + 1) ELSE 0

\* String.prototype.trim: from the first to the last character that is no
\* white space
trim(s) ==
    IF \A i \in 1..Len(s) : IsWhiteSpace(s[i]) THEN <<>>
    ELSE SubSeq(s, SetMin({i \in 1..Len(s) : ~IsWhiteSpace(s[i])}),
                   SetMax({i \in 1..Len(s) : ~IsWhiteSpace(s[i])}))

\* parseInt(digits, 10) of a string of decimal digits
RECURSIVE parseInt(_)
parseInt(digits) ==
    IF digits = <<>> THEN 0
    ELSE parseInt(SubSeq(digits, 1, Len(digits) - 1)) * 10
         + DigitValue(digits[Len(digits)])

-----------------------------------------------------------------------------
(* init.js: the constants *)

NAMING_TOKEN == <<"C", "U", "S", "T", "O", "M", "C", "L", "A", "S", "S">>

\* the literal of REGEX_NAMING_ITEM
NamingLiteral == <<"c", "u", "s", "t", "o", "m", "c", "l", "a", "s", "s">>

NoMatch == [matched |-> FALSE, g1 |-> <<>>, has2 |-> FALSE, g2 |-> <<>>, g3 |-> <<>>]

\* \)\s*(.*)$ with the ")" at position p and g characters for \s*: (.*) takes
\* the rest, which must reach the end without a line terminator
TailMatches(s, p, g) ==
    /\ p <= Len(s)
    /\ s[p] = ")"
    /\ \A i \in (p + 1 + g)..Len(s) : ~IsLineTerminator(s[i])

\* the ways REGEX_PREFIXED_SKILL = /^\(\s*([^)]+?)\s*(?:\^(\d+))?\)\s*(.*)$/
\* matches s: k characters for the first \s*, c for [^)]+?, w for the second
\* \s*, d digits for the weight group (0: the group takes no part), g for
\* the last \s*, and (.*) the rest up to the end, without line terminator
PrefixedSplits(s) ==
    IF Len(s) = 0 \/ s[1] # "(" THEN {}
    ELSE UNION {UNION {UNION {UNION {
            {<<k, c, w, d, g>> :
                g \in {g \in 0..BlankRun(s, 3 + k + c + w + d + (IF d > 0 THEN 1 ELSE 0)) :
                         TailMatches(s, 2 + k + c + w + d + (IF d > 0 THEN 1 ELSE 0), g)}} :
            d \in {0} \cup (IF s[2 + k + c + w] = "^"
                            THEN 1..DigitRun(s, 3 + k + c + w)
                            ELSE {})} :
            w \in {w \in 0..BlankRun(s, 2 + k + c) :
                     /\ 2 + k + c + w <= Len(s)
                     /\ s[2 + k + c + w] \in {"^", ")"}}} :
            c \in 1..NotCloseRun(s, 2 + k)} :
            k \in 0..BlankRun(s, 2)}

\* the order in which the backtracking matcher tries the splits: the first
\* \s* greedy, [^)]+? lazy, the second \s* greedy, the weight group before
\* its absence and \d+ greedy, the last \s* greedy
TriedBefore(x, y) ==
    \/ x[1] > y[1]
    \/ x[1] = y[1] /\ x[2] < y[2]
    \/ x[1] = y[1] /\ x[2] = y[2] /\ x[3] > y[3]
    \/ x[1] = y[1] /\ x[2] = y[2] /\ x[3] = y[3] /\ x[4] > y[4]
    \/ x[1] = y[1] /\ x[2] = y[2] /\ x[3] = y[3] /\ x[4] = y[4] /\ x[5] > y[5]

FirstTried(splits) == CHOOSE x \in splits : \A y \in splits \ {x} : TriedBefore(x, y)

\* name.match(REGEX_PREFIXED_SKILL): the groups of the first split that matches
PrefixedGroups(s, x) ==
    [matched |-> TRUE,
     g1 |-> SubSeq(s, 2 + x[1], 1 + x[1] + x[2]),
     has2 |-> x[4] > 0,
     g2 |-> SubSeq(s, 3 + x[1] + x[2] + x[3], 2 + x[1] + x[2] + x[3] + x[4]),
     g3 |-> SubSeq(s, 3 + x[1] + x[2] + x[3] + x[4] + (IF x[4] > 0 THEN 1 ELSE 0) + x[5],
                   Len(s))]

PrefixedMatch(s, splits) ==
    IF splits = {} THEN NoMatch ELSE PrefixedGroups(s, FirstTried(splits))

REGEX_PREFIXED_SKILL(s) == PrefixedMatch(s, PrefixedSplits(s))

\* s has the literal of REGEX_NAMING_ITEM at position p, ignoring case (/i)
HasNamingLiteral(s, p) ==
    /\ p + Len(NamingLiteral) - 1 <= Len(s)
    /\ \A i \in 1..Len(NamingLiteral) : ToLowerChar(s[p + i - 1]) = NamingLiteral[i]

\* the ways REGEX_NAMING_ITEM = /^\(\s*customclass\s*\)\s*(.+)$/i matches s:
\* k characters for the first \s*, w for the second, g for the third, and
\* (.+) at least one character up to the end, without line terminator
NamingSplits(s) ==
    IF Len(s) = 0 \/ s[1] # "(" THEN {}
    ELSE UNION {UNION {
            {<<k, w, g>> :
                g \in {g \in 0..BlankRun(s, 3 + k + Len(NamingLiteral) + w) :
                         /\ TailMatches(s, 2 + k + Len(NamingLiteral) + w, g)
                         /\ 3 + k + Len(NamingLiteral) + w + g <= Len(s)}} :
            w \in 0..BlankRun(s, 2 + k + Len(NamingLiteral))} :
            k \in {k \in 0..BlankRun(s, 2) : HasNamingLiteral(s, 2 + k)}}

\* every \s* of the pattern is greedy
NamingTriedBefore(x, y) ==
    \/ x[1] > y[1]
    \/ x[1] = y[1] /\ x[2] > y[2]
    \/ x[1] = y[1] /\ x[2] = y[2] /\ x[3] > y[3]

NamingFirstTried(splits) ==
    CHOOSE x \in splits : \A y \in splits \ {x} : NamingTriedBefore(x, y)

NamingGroups(s, x) ==
    [NoMatch EXCEPT !.matched = TRUE,
                    !.g1 = SubSeq(s, 3 + x[1] + Len(NamingLiteral) + x[2] + x[3], Len(s))]

NamingMatch(s, splits) ==
    IF splits = {} THEN NoMatch ELSE NamingGroups(s, NamingFirstTried(splits))

REGEX_NAMING_ITEM(s) == NamingMatch(s, NamingSplits(s))

-----------------------------------------------------------------------------
(* utils.js: the two parsers *)

\* a name that is no string (undefined): name.match raises a TypeError
Undefined == <<"undefined">>

\* the null the parsers return
Null == [isNull |-> TRUE, className |-> <<>>, weight |-> 0, skillName |-> <<>>]

\* parsePrefixedSkillName without the trim() of the skill name
parsePrefixedSkillName_NoTrim(n) ==
    LET match == REGEX_PREFIXED_SKILL(n)
    IN  IF ~match.matched THEN Null
        ELSE [isNull |-> FALSE,
              className |-> trim(match.g1),
              weight |-> IF match.has2 THEN parseInt(match.g2) ELSE 0,
              skillName |-> match.g3]

parsePrefixedSkillName(n) ==
    LET match == REGEX_PREFIXED_SKILL(n)
    IN  IF ~match.matched THEN Null
        ELSE [isNull |-> FALSE,
              className |-> trim(match.g1),
              weight |-> IF match.has2 THEN parseInt(match.g2) ELSE 0,
              skillName |-> trim(match.g3)]

NullLabel == [isNull |-> TRUE, label |-> <<>>]

\* parseNamingItem without the trim() of the label
parseNamingItem_NoTrim(n) ==
    LET m == REGEX_NAMING_ITEM(n)
    IN  IF ~m.matched THEN NullLabel
        ELSE [isNull |-> FALSE, label |-> m.g1]

parseNamingItem(n) ==
    LET m == REGEX_NAMING_ITEM(n)
    IN  IF ~m.matched THEN NullLabel
        ELSE [isNull |-> FALSE, label |-> trim(m.g1)]

\* JavaScript truthiness of what parseNamingItem returns: null and "" are falsy
Truthy(l) == ~l.isNull /\ l.label # <<>>

-----------------------------------------------------------------------------
(* The names the parsers are run on *)

\* characters of the free-form names: the two parentheses, the weight mark,
\* a digit, a blank, a line terminator and a letter
Alphabet == {"(", ")", "^", "1", " ", "\n", "a"}

FreeNames == UNION {[1..n -> Alphabet] : n \in 0..MaxNameLen}

StrBard == <<"B", "a", "r", "d">>
StrBarbarian == <<"B", "a", "r", "b", "a", "r", "i", "a", "n">>
StrRanger == <<"R", "a", "n", "g", "e", "r">>
StrTrack == <<"T", "r", "a", "c", "k">>
StrNaturalArmor == <<"N", "a", "t", "u", "r", "a", "l", " ", "A", "r", "m", "o", "r">>
StrConstructor == <<"c", "o", "n", "s", "t", "r", "u", "c", "t", "o", "r">>
StrCustomClass == <<"C", "u", "s", "t", "o", "m", "C", "l", "a", "s", "s">>

\* names put together slot by slot around the two patterns: leading text,
\* "(", blanks, class text, blanks, weight, ")" or nothing, blanks, the rest
SlotLead == {<<>>, <<" ">>}
SlotBlank == {<<>>, <<" ">>}
SlotClass == {NamingLiteral, NAMING_TOKEN, StrCustomClass, StrBarbarian,
              StrRanger, StrConstructor, <<>>}
SlotWeight == {<<>>, <<"^", "1", "0">>, <<"^", "9">>, <<"^", "0", "0", "7">>}
SlotClose == {<<")">>, <<>>}
SlotGap == {<<>>, <<" ">>, <<"\n">>}
SlotRest == {<<>>, StrBard, StrTrack, StrNaturalArmor, <<"a", "\n", "b">>,
             <<"B", "a", "r", "d", " ">>}

SlottedNames ==
    {l \o <<"(">> \o b1 \o c \o b2 \o w \o cl \o g \o r :
        l \in SlotLead, b1 \in SlotBlank, c \in SlotClass, b2 \in SlotBlank,
        w \in SlotWeight, cl \in SlotClose, g \in SlotGap, r \in SlotRest}

Names == FreeNames \cup SlottedNames

-----------------------------------------------------------------------------
(* SpecParse: the two parsers run on one name *)

NoCall == [fn |-> "none", parsed |-> Null, label |-> NullLabel]

\* no class builder has been launched
NoBuilder == [open |-> FALSE]

InitParse ==
    /\ name \in Names
    /\ ret = NoCall
    /\ items = <<>>
    /\ out = [fn |-> "none"]
    /\ wizard = NoBuilder
    /\ calls = <<>>

CallParsePrefixedSkillName ==
    /\ ret' = [fn |-> "parsePrefixedSkillName",
               parsed |-> parsePrefixedSkillName(name),
               label |-> NullLabel]
    /\ UNCHANGED <<name, items, out, wizard, calls>>

CallParseNamingItem ==
    /\ ret' = [fn |-> "parseNamingItem",
               parsed |-> Null,
               label |-> parseNamingItem(name)]
    /\ UNCHANGED <<name, items, out, wizard, calls>>

NextParse == CallParsePrefixedSkillName \/ CallParseNamingItem

SpecParse == InitParse /\ [][NextParse]_vars

-----------------------------------------------------------------------------
(* The actor's records *)

StrSkill == <<"s", "k", "i", "l", "l">>
StrSkillCapital == <<"S", "k", "i", "l", "l">>
StrWeapon == <<"w", "e", "a", "p", "o", "n">>

\* item.type ?? ""
TypeOrEmpty(t) == IF t = Undefined THEN <<>> ELSE t

\* (item.type ?? "").toLowerCase() === "skill"
IsSkillType(item) == toLowerCase(TypeOrEmpty(item.type)) = StrSkill

\* the own properties of Object.prototype that a class name can spell: for
\* such a key, grouped[key] of the object literal {} is the inherited value
ObjectPrototypeKeys ==
    {StrConstructor,
     <<"t", "o", "S", "t", "r", "i", "n", "g">>,
     <<"v", "a", "l", "u", "e", "O", "f">>,
     <<"_", "_", "p", "r", "o", "t", "o", "_", "_">>,
     <<"h", "a", "s", "O", "w", "n", "P", "r", "o", "p", "e", "r", "t", "y">>,
     <<"i", "s", "P", "r", "o", "t", "o", "t", "y", "p", "e", "O", "f">>,
     <<"t", "o", "L", "o", "c", "a", "l", "e", "S", "t", "r", "i", "n", "g">>}

\* the characters in the order of the root collation: blanks, punctuation,
\* symbols, digits, letters
CollationOrder ==
    <<"\t", "\n", "\r", " ", "_", "-", ",", ";", ":", "!", "?", ".",
      "(", ")", "[", "]", "{", "}", "@", "*", "/", "&", "#", "%", "^",
      "+", "<", "=", ">", "|", "~", "$">> \o Digits \o Lower

\* the primary collation weight of a character: its place in the order;
\* letters weigh the same in both cases
CollationRank ==
    [c \in {CollationOrder[i] : i \in 1..Len(CollationOrder)} |->
        CHOOSE i \in 1..Len(CollationOrder) : CollationOrder[i] = c]

PrimaryWeight(c) == CollationRank[ToLowerChar(c)]

\* a.localeCompare(b, undefined, { sensitivity: "base" }): -1, 0 or 1 by the
\* primary weights at the first position where they differ, a proper prefix
\* first
localeCompareBase(a, b) ==
    IF \E i \in 1..Len(a) : i <= Len(b) /\ PrimaryWeight(a[i]) # PrimaryWeight(b[i])
    THEN IF \E i \in 1..Len(a) :
               /\ i <= Len(b)
               /\ PrimaryWeight(a[i]) < PrimaryWeight(b[i])
               /\ \A j \in 1..(i - 1) : PrimaryWeight(a[j]) = PrimaryWeight(b[j])
         THEN -1 ELSE 1
    ELSE IF Len(a) < Len(b) THEN -1
    ELSE IF Len(a) > Len(b) THEN 1
    ELSE 0

\* Array.prototype.sort with a comparator that orders the elements
\* consistently: the sort is stable, so s[i] ends behind the elements that
\* compare smaller and behind the equal ones that stood before it
\* (cmp[j][i] is what the comparator returns for s[j] and s[i])
SortBy(s, cmp) ==
    [p \in 1..Len(s) |->
        s[CHOOSE i \in 1..Len(s) :
            Cardinality({j \in 1..Len(s) :
                \/ cmp[j][i] < 0
                \/ cmp[j][i] = 0 /\ j < i}) = p - 1]]

-----------------------------------------------------------------------------
(* utils.js: groupActorSkills *)

\* the comparator of a class group: high weight first, then the skill name
\* the comparator with the weights ascending: a.weight - b.weight
GroupMemberCompare_Ascending(a, b) ==
    IF b.parsed.weight # a.parsed.weight
    THEN a.parsed.weight - b.parsed.weight
    ELSE localeCompareBase(a.parsed.skillName, b.parsed.skillName)

GroupMemberCompare(a, b) ==
    IF b.parsed.weight # a.parsed.weight
    THEN b.parsed.weight - a.parsed.weight
    ELSE localeCompareBase(a.parsed.skillName, b.parsed.skillName)

\* the comparator of the occupational skills: the full name
OccupationalCompare_Descending(a, b) == localeCompareBase(b.name, a.name)

OccupationalCompare(a, b) == localeCompareBase(a.name, b.name)

\* actor.items after groupActorSkills: the loop pushes the records on arrays
\* of its own, and the sorts act on those arrays
ItemsAfterGroupActorSkills(its) == its

\* position of the group with key k in grouped, 0 when there is none
GroupIndex(grouped, k) ==
    IF \E i \in 1..Len(grouped) : grouped[i].className = k
    THEN CHOOSE i \in 1..Len(grouped) : grouped[i].className = k
    ELSE 0

\* the placing of a parsed record in its group
PlaceInGroup(acc, item, parsed) ==
    IF parsed.className \in ObjectPrototypeKeys
    THEN [acc EXCEPT !.threw = TRUE]
    ELSE LET i == GroupIndex(acc.grouped, parsed.className)
             member == [item |-> item, parsed |-> parsed]
         IN  IF i = 0
             THEN [acc EXCEPT !.grouped =
                      Append(@, [className |-> parsed.className,
                                 members |-> <<member>>])]
             ELSE [acc EXCEPT !.grouped[i].members = Append(@, member)]

\* the pass of the loop without the guard against the reserved class name
GroupItem_NoGuard(acc, item) ==
    IF ~IsSkillType(item) THEN acc
    ELSE IF item.name = Undefined THEN [acc EXCEPT !.threw = TRUE]
    ELSE IF Truthy(parseNamingItem(item.name)) THEN acc
    ELSE LET parsed == parsePrefixedSkillName(item.name)
         IN  IF parsed.isNull
             THEN [acc EXCEPT !.occupational = Append(@, item)]
             ELSE PlaceInGroup(acc, item, parsed)

\* the pass of the loop with a guard that compares the letters as written
GroupItem_GuardCaseSensitive(acc, item) ==
    IF ~IsSkillType(item) THEN acc
    ELSE IF item.name = Undefined THEN [acc EXCEPT !.threw = TRUE]
    ELSE IF Truthy(parseNamingItem(item.name)) THEN acc
    ELSE LET parsed == parsePrefixedSkillName(item.name)
         IN  IF parsed.isNull
             THEN [acc EXCEPT !.occupational = Append(@, item)]
             ELSE IF trim(parsed.className) = NAMING_TOKEN
             THEN acc
             ELSE PlaceInGroup(acc, item, parsed)

\* one pass of the for loop over actor.items
GroupItem(acc, item) ==
    IF ~IsSkillType(item) THEN acc
    ELSE IF item.name = Undefined THEN [acc EXCEPT !.threw = TRUE]
    ELSE IF Truthy(parseNamingItem(item.name)) THEN acc
    ELSE LET parsed == parsePrefixedSkillName(item.name)
         IN  IF parsed.isNull
             THEN [acc EXCEPT !.occupational = Append(@, item)]
             ELSE IF toLowerCase(trim(parsed.className)) = toLowerCase(NAMING_TOKEN)
             THEN acc
             ELSE PlaceInGroup(acc, item, parsed)

\* the for loop over actor.items from record i on; a TypeError ends it
RECURSIVE GroupLoop(_, _, _)
GroupLoop(its, i, acc) ==
    IF i > Len(its) \/ acc.threw THEN acc
    ELSE GroupLoop(its, i + 1, GroupItem(acc, its[i]))

SortGroup(g) ==
    [className |-> g.className,
     members |-> SortBy(g.members,
                        [j \in 1..Len(g.members) |-> [i \in 1..Len(g.members) |->
                            GroupMemberCompare(g.members[j], g.members[i])]])]

\* the two sorts and the return
GroupSorted(looped) ==
    IF looped.threw
    THEN [threw |-> TRUE, grouped |-> <<>>, occupational |-> <<>>]
    ELSE [threw |-> FALSE,
          grouped |-> [i \in 1..Len(looped.grouped) |-> SortGroup(looped.grouped[i])],
          occupational |->
              SortBy(looped.occupational,
                     [j \in 1..Len(looped.occupational) |->
                         [i \in 1..Len(looped.occupational) |->
                             OccupationalCompare(looped.occupational[j],
                                                 looped.occupational[i])]])]

\* what groupActorSkills returns for the records its: threw is set when the
\* loop raised a TypeError, and then there is no result
groupActorSkills(its) ==
    GroupSorted(GroupLoop(its, 1, [threw |-> FALSE, grouped |-> <<>>,
                                   occupational |-> <<>>]))

-----------------------------------------------------------------------------
(* utils.js: getCustomClassLabel *)

\* the callback of actor.items.filter; it reads the name of skill records only
IsNamingSkill(i) == IsSkillType(i) /\ Truthy(parseNamingItem(i.name))

\* the comparator with the latest record first
UpdateTimeCompare_Descending(a, b) == b.updateTime - a.updateTime

UpdateTimeCompare(a, b) == a.updateTime - b.updateTime

\* actor.items after a sort of the collection itself by update time
ItemsAfterNamingFilter_SortInPlace(its) ==
    SortBy(its, [j \in 1..Len(its) |-> [i \in 1..Len(its) |->
                    its[j].updateTime - its[i].updateTime]])

\* actor.items after getCustomClassLabel or getCustomClassIcon: filter returns
\* a new array, and the sort and the reads act on that array
ItemsAfterNamingFilter(its) == its

\* what getCustomClassLabel returns: threw when the filter raised a TypeError
getCustomClassLabel(its) ==
    IF \E i \in 1..Len(its) : IsSkillType(its[i]) /\ its[i].name = Undefined
    THEN [threw |-> TRUE, label |-> NullLabel]
    ELSE LET filtered == SelectSeq(its, IsNamingSkill)
             namingSkills ==
                 SortBy(filtered,
                        [j \in 1..Len(filtered) |-> [i \in 1..Len(filtered) |->
                            UpdateTimeCompare(filtered[j], filtered[i])]])
         IN  IF Len(namingSkills) = 0
             THEN [threw |-> FALSE, label |-> NullLabel]
             ELSE [threw |-> FALSE,
                   label |-> parseNamingItem(namingSkills[Len(namingSkills)].name)]

-----------------------------------------------------------------------------
(* utils.js: parseCustomClassIcon, getCustomClassIcon *)

\* [a-z0-9\-] under the i flag
IsIconChar(c) ==
    \/ \E i \in 1..26 : Lower[i] = c \/ Upper[i] = c
    \/ IsDigit(c)
    \/ c = "-"

\* how many characters a greedy [a-z0-9\-]* takes in s at position p
RECURSIVE IconRun(_, _)
IconRun(s, p) ==
    IF p <= Len(s) /\ IsIconChar(s[p]) THEN 1 + IconRun(s, p + 1) ELSE 0

\* the lower-case literal lit stands in s at position p, in any letter case
LiteralAt(s, p, lit) ==
    /\ p + Len(lit) - 1 <= Len(s)
    /\ \A i \in 1..Len(lit) : ToLowerChar(s[p + i - 1]) = lit[i]

\* s.startsWith(pre)
startsWith(s, pre) == Len(pre) <= Len(s) /\ SubSeq(s, 1, Len(pre)) = pre

StrOpenP == <<"<", "p", ">">>
StrIconColon == <<"i", "c", "o", "n", ":">>
StrCloseP == <<"<", "/", "p", ">">>
StrFa == <<"f", "a", "-">>
StrFaSolid == <<"f", "a", "-", "s", "o", "l", "i", "d">>
StrFaRegular == <<"f", "a", "-", "r", "e", "g", "u", "l", "a", "r">>
StrFaBrands == <<"f", "a", "-", "b", "r", "a", "n", "d", "s">>
DEFAULT_ICON ==
    <<"f", "a", "-", "s", "o", "l", "i", "d", " ", "f", "a", "-", "c", "i", "r",
      "c", "l", "e", "-", "e", "x", "c", "l", "a", "m", "a", "t", "i", "o", "n">>

\* where the token of /<p>\s*icon:\s*([a-z0-9\-]+)\s*<\/p>/i begins when the
\* match begins at position i: the blanks and the token are taken greedily,
\* and since no character is both, nothing else is tried
IconTokenStart(s, i) ==
    LET b == i + 3 + BlankRun(s, i + 3)
    IN  b + 5 + BlankRun(s, b + 5)

\* the pattern matches in s from position i on
IconMatchAt(s, i) ==
    LET b == i + 3 + BlankRun(s, i + 3)
        c == IconTokenStart(s, i)
        t == IconRun(s, c)
    IN  /\ LiteralAt(s, i, StrOpenP)
        /\ LiteralAt(s, b, StrIconColon)
        /\ t >= 1
        /\ LiteralAt(s, c + t + BlankRun(s, c + t), StrCloseP)

\* group 1 of the match that begins at position i
IconGroup(s, i) ==
    SubSeq(s, IconTokenStart(s, i),
              IconTokenStart(s, i) + IconRun(s, IconTokenStart(s, i)) - 1)

\* /^fa-[a-z0-9\-]+$/i.test(iconClass)
IsFaClass(iconClass) ==
    /\ Len(iconClass) >= 4
    /\ LiteralAt(iconClass, 1, StrFa)
    /\ \A i \in 4..Len(iconClass) : IsIconChar(iconClass[i])

NullIcon == [isNull |-> TRUE, icon |-> <<>>]

\* parseCustomClassIcon without the test that the class begins with fa-
parseCustomClassIcon_NoValidation(descriptionHTML) ==
    IF descriptionHTML = <<>> THEN NullIcon
    ELSE LET starts == {i \in 1..Len(descriptionHTML) : IconMatchAt(descriptionHTML, i)}
         IN  IF starts = {} THEN NullIcon
             ELSE [isNull |-> FALSE,
                   icon |-> trim(IconGroup(descriptionHTML, SetMin(starts)))]

\* parseCustomClassIcon: the first match of the pattern decides
parseCustomClassIcon(descriptionHTML) ==
    IF descriptionHTML = <<>> THEN NullIcon
    ELSE LET starts == {i \in 1..Len(descriptionHTML) : IconMatchAt(descriptionHTML, i)}
         IN  IF starts = {} THEN NullIcon
             ELSE LET iconClass == trim(IconGroup(descriptionHTML, SetMin(starts)))
                  IN  IF ~IsFaClass(iconClass) THEN NullIcon
                      ELSE [isNull |-> FALSE, icon |-> iconClass]

\* namingSkill.system?.description?.value || ""
DescriptionOrEmpty(d) == IF d = Undefined THEN <<>> ELSE d

\* the return of getCustomClassIcon for the class parseCustomClassIcon gave
IconWithFamily(parsedIcon) ==
    IF parsedIcon.isNull THEN DEFAULT_ICON
    ELSE IF /\ startsWith(parsedIcon.icon, StrFa)
            /\ ~startsWith(parsedIcon.icon, StrFaSolid)
            /\ ~startsWith(parsedIcon.icon, StrFaRegular)
            /\ ~startsWith(parsedIcon.icon, StrFaBrands)
    THEN StrFaSolid \o <<" ">> \o parsedIcon.icon
    ELSE parsedIcon.icon

\* the naming skill taken at the other end of the sorted array
IconNamingSkill_First(namingSkills) == namingSkills[1]

\* namingSkills.at(-1) of getCustomClassIcon
IconNamingSkill(namingSkills) == namingSkills[Len(namingSkills)]

\* what getCustomClassIcon returns: threw when the filter raised a TypeError
getCustomClassIcon(its) ==
    IF \E i \in 1..Len(its) : IsSkillType(its[i]) /\ its[i].name = Undefined
    THEN [threw |-> TRUE, icon |-> <<>>]
    ELSE LET filtered == SelectSeq(its, IsNamingSkill)
             namingSkills ==
                 SortBy(filtered,
                        [j \in 1..Len(filtered) |-> [i \in 1..Len(filtered) |->
                            UpdateTimeCompare(filtered[j], filtered[i])]])
         IN  IF Len(namingSkills) = 0
             THEN [threw |-> FALSE, icon |-> DEFAULT_ICON]
             ELSE [threw |-> FALSE,
                   icon |-> IconWithFamily(parseCustomClassIcon(
                       DescriptionOrEmpty(IconNamingSkill(namingSkills).description)))]

-----------------------------------------------------------------------------
(* The sheet: _prepareContext *)

\* the comparator of the group names without the priority of the class label
GroupNameCompare_NoPriority(a, b, classLabel) == localeCompareBase(a, b)

\* the comparator of the group names: a name matching the class label first
GroupNameCompare(a, b, classLabel) ==
    LET aMatches == toLowerCase(a) = toLowerCase(classLabel.label)
        bMatches == toLowerCase(b) = toLowerCase(classLabel.label)
    IN  IF Truthy(classLabel) /\ aMatches /\ ~bMatches THEN -1
        ELSE IF Truthy(classLabel) /\ ~aMatches /\ bMatches THEN 1
        ELSE localeCompareBase(a, b)

\* Object.keys(grouped).sort(...): the keys are in the order the groups were
\* made (no class name of the model is an array index)
SortedGroupNames(grouped, classLabel) ==
    LET keys == [i \in 1..Len(grouped) |-> grouped[i].className]
    IN  SortBy(keys, [j \in 1..Len(keys) |-> [i \in 1..Len(keys) |->
                         GroupNameCompare(keys[j], keys[i], classLabel)]])

\* game.i18n.localize("DCCCS.OccupationalSkills")
OccupationalSkillsTitle == <<"DCCCS.OccupationalSkills">>

\* groupsData with the occupational skills put before the class groups
GroupsData_OccupationalFirst(res, sortedGroupNames) ==
    (IF Len(res.occupational) > 0
     THEN <<[className |-> OccupationalSkillsTitle,
             skills |-> [j \in 1..Len(res.occupational) |->
                            [item |-> res.occupational[j],
                             displayName |-> res.occupational[j].name]]]>>
     ELSE <<>>)
    \o [i \in 1..Len(sortedGroupNames) |->
           LET g == res.grouped[GroupIndex(res.grouped, sortedGroupNames[i])]
           IN  [className |-> g.className,
                skills |-> [j \in 1..Len(g.members) |->
                               [item |-> g.members[j].item,
                                displayName |-> g.members[j].parsed.skillName]]]]

\* groupsData: a group per sorted name, then the occupational skills if any
GroupsData(res, sortedGroupNames) ==
    [i \in 1..Len(sortedGroupNames) |->
        LET g == res.grouped[GroupIndex(res.grouped, sortedGroupNames[i])]
        IN  [className |-> g.className,
             skills |-> [j \in 1..Len(g.members) |->
                            [item |-> g.members[j].item,
                             displayName |-> g.members[j].parsed.skillName]]]]
    \o (IF Len(res.occupational) > 0
        THEN <<[className |-> OccupationalSkillsTitle,
                skills |-> [j \in 1..Len(res.occupational) |->
                               [item |-> res.occupational[j],
                                displayName |-> res.occupational[j].name]]]>>
        ELSE <<>>)

-----------------------------------------------------------------------------
(* Spec: groupActorSkills on an actor whose owner adds records *)

NoOut == [fn |-> "none", threw |-> FALSE, grouped |-> <<>>, occupational |-> <<>>,
          label |-> NullLabel, sortedGroupNames |-> <<>>, tabLabel |-> <<>>,
          groups |-> <<>>, hasGroups |-> FALSE, icon |-> <<>>]

\* a record without description, and one with the description d
Rec(n, t, u) == [name |-> n, type |-> t, updateTime |-> u, description |-> Undefined]
RecD(n, t, u, d) == [name |-> n, type |-> t, updateTime |-> u, description |-> d]

\* the records the owner of the actor creates
GroupPool ==
    {Rec(<<"(", "B", "^", "1", "0", ")", "c">>, StrSkill, 0),
     Rec(<<"(", "B", "^", "9", ")", "a">>, StrSkill, 0),
     Rec(<<"(", "B", "^", "9", ")", "B">>, StrSkillCapital, 0),
     Rec(<<"(", "B", ")", "A">>, StrSkill, 0),
     Rec(<<"(", "b", ")", "a">>, StrSkill, 0),
     Rec(<<"(">> \o NAMING_TOKEN \o <<")">> \o StrBard, StrSkill, 0),
     Rec(<<"(">> \o NamingLiteral \o <<")", " ">>, StrSkill, 0),
     Rec(<<"(">> \o NAMING_TOKEN \o <<")">> \o StrBard, StrWeapon, 0),
     Rec(<<"(">> \o StrCustomClass \o <<"^", "5", ")", "F", "o", "o">>, StrSkill, 0),
     Rec(<<"(">> \o StrConstructor \o <<")", "a">>, StrSkill, 0),
     Rec(<<"(", " ", ")", "a">>, StrSkill, 0),
     Rec(<<>>, StrSkill, 0),
     Rec(Undefined, StrSkill, 0),
     Rec(<<"b">>, StrSkill, 0),
     Rec(<<"A">>, StrSkill, 0),
     Rec(<<"(", "B", ")", "a">>, StrWeapon, 0),
     Rec(<<"(", "B", ")", "a">>, Undefined, 0)}

Init ==
    /\ name = <<>>
    /\ ret = NoCall
    /\ items = <<>>
    /\ out = NoOut
    /\ wizard = NoBuilder
    /\ calls = <<>>

\* the owner adds a record to the actor; a result computed before is stale
\* and dropped
CreateItemFrom(pool, max) ==
    /\ Len(items) < max
    /\ \E r \in pool :
          items' = Append(items, [id |-> Len(items) + 1, name |-> r.name,
                                  type |-> r.type, updateTime |-> r.updateTime,
                                  description |-> r.description])
    /\ out' = NoOut
    /\ UNCHANGED <<name, ret, wizard, calls>>

CreateItem == CreateItemFrom(GroupPool, MaxItems)

CallGroupActorSkills ==
    /\ LET res == groupActorSkills(items)
       IN  out' = [NoOut EXCEPT !.fn = "groupActorSkills",
                                !.threw = res.threw,
                                !.grouped = res.grouped,
                                !.occupational = res.occupational]
    /\ items' = ItemsAfterGroupActorSkills(items)
    /\ UNCHANGED <<name, ret, wizard, calls>>

Next == CreateItem \/ CallGroupActorSkills

Spec == Init /\ [][Next]_vars

-----------------------------------------------------------------------------
(* SpecLabel: getCustomClassLabel on an actor with naming records *)

LabelPool ==
    {Rec(<<"(">> \o NAMING_TOKEN \o <<")">> \o StrBard, StrSkill, u) : u \in 0..2}
    \cup {Rec(<<"(">> \o NamingLiteral \o <<")",
      " ">> \o StrRanger, StrSkillCapital, u) :
             u \in 0..2}
    \cup {Rec(<<"(">> \o NAMING_TOKEN \o <<")", " ">>, StrSkill, u) : u \in {0, 2}}
    \cup {Rec(<<"(">> \o NAMING_TOKEN \o <<")">> \o StrTrack, StrWeapon, 2),
          Rec(<<"(">> \o StrBard \o <<")">> \o StrTrack, StrSkill, 2),
          Rec(Undefined, StrSkill, 1)}

CreateLabelItem == CreateItemFrom(LabelPool, MaxLabelItems)

CallGetCustomClassLabel ==
    /\ LET res == getCustomClassLabel(items)
       IN  out' = [NoOut EXCEPT !.fn = "getCustomClassLabel",
                                !.threw = res.threw,
                                !.label = res.label]
    /\ items' = ItemsAfterNamingFilter(items)
    /\ UNCHANGED <<name, ret, wizard, calls>>

NextLabel == CreateLabelItem \/ CallGetCustomClassLabel

SpecLabel == Init /\ [][NextLabel]_vars

-----------------------------------------------------------------------------
(* SpecIcon: getCustomClassIcon on an actor with naming records *)

DescAxeBattle ==
    <<"<", "p", ">", "i", "c", "o", "n", ":", " ", "f", "a", "-", "a", "x", "e",
      "-", "b", "a", "t", "t", "l", "e", "<", "/", "p", ">">>
DescBrands ==
    <<"<", "p", ">", "i", "c", "o", "n", ":", " ", "f", "a", "-", "b", "r", "a",
      "n", "d", "s", "<", "/", "p", ">">>
DescNoFa ==
    <<"<", "p", ">", "i", "c", "o", "n", ":", " ", "a", "x", "e", "<", "/", "p", ">">>
DescNoFaThenAxe ==
    <<"<", "p", ">", "i", "c", "o", "n", ":", " ", "a", "x", "e", "<", "/", "p",
      ">", "<", "p", ">", "i", "c", "o", "n", ":", " ", "f", "a", "-", "a", "x",
      "e", "<", "/", "p", ">">>
DescUpperCase ==
    <<"<", "P", ">", "I", "C", "O", "N", ":", " ", "F", "A", "-", "A", "X", "E",
      "<", "/", "P", ">">>
DescSecondParagraph ==
    <<"<", "h", "3", ">", "x", "<", "/", "h", "3", ">", "<", "p", ">", " ", "i",
      "c", "o", "n", ":", "f", "a", "-", "s", "o", "l", "i", "d", "-", "x", "\n",
      "<", "/", "p", ">">>
DescTwoClasses ==
    <<"<", "p", ">", "i", "c", "o", "n", ":", " ", "f", "a", "-", "r", "e", "g",
      "u", "l", "a", "r", " ", "f", "a", "-", "u", "s", "e", "r", "<", "/", "p", ">">>
DescNoDirective ==
    <<"<", "h", "3", ">", "x", "<", "/", "h", "3", ">", "<", "p", ">", "y", "<",
      "/", "p", ">">>

IconPool ==
    {RecD(<<"(">> \o NAMING_TOKEN \o <<")">> \o StrBard, StrSkill, 1, d) :
        d \in {DescAxeBattle, DescBrands, DescNoFa, DescNoFaThenAxe, DescUpperCase,
               DescSecondParagraph, DescTwoClasses, DescNoDirective, <<>>, Undefined}}
    \cup {RecD(<<"(">> \o NamingLiteral \o <<")",
      " ">> \o StrRanger, StrSkillCapital, 2,
               DescNoDirective),
          RecD(<<"(">> \o NamingLiteral \o <<")", " ">> \o StrRanger, StrSkill, 0,
               DescBrands),
          RecD(<<"(">> \o NAMING_TOKEN \o <<")", " ">>, StrSkill, 2, DescBrands),
          RecD(<<"(">> \o NAMING_TOKEN \o <<")">> \o StrTrack, StrWeapon, 2, DescBrands),
          RecD(<<"(">> \o StrBard \o <<")">> \o StrTrack, StrSkill, 2, DescAxeBattle),
          Rec(Undefined, StrSkill, 1)}

CreateIconItem == CreateItemFrom(IconPool, MaxIconItems)

CallGetCustomClassIcon ==
    /\ LET res == getCustomClassIcon(items)
       IN  out' = [NoOut EXCEPT !.fn = "getCustomClassIcon",
                                !.threw = res.threw,
                                !.icon = res.icon]
    /\ items' = ItemsAfterNamingFilter(items)
    /\ UNCHANGED <<name, ret, wizard, calls>>

NextIcon == CreateIconItem \/ CallGetCustomClassIcon

SpecIcon == Init /\ [][NextIcon]_vars

-----------------------------------------------------------------------------
(* SpecEngine: the three functions of utils.js called on one actor *)

NextEngine ==
    \/ CreateIconItem
    \/ CallGroupActorSkills
    \/ CallGetCustomClassLabel
    \/ CallGetCustomClassIcon

SpecEngine == Init /\ [][NextEngine]_vars

-----------------------------------------------------------------------------
(* SpecSheet: the sheet of an actor is prepared *)

StrDruid == <<"D", "r", "u", "i", "d">>
StrAlchemist == <<"A", "l", "c", "h", "e", "m", "i", "s", "t">>
StrClimbing == <<"C", "l", "i", "m", "b", "i", "n", "g">>

SheetPool ==
    {Rec(<<"(">> \o NAMING_TOKEN \o <<")">> \o StrBarbarian, StrSkill, 0),
     Rec(<<"(">> \o NAMING_TOKEN \o <<")", "d", "r", "u", "i", "d">>, StrSkill, 1),
     Rec(<<"(">> \o StrBarbarian \o <<")", "a">>, StrSkill, 0),
     Rec(<<"(", "b", "a", "r", "b", "a", "r", "i", "a", "n", "^", "1", ")", "b">>,
         StrSkill, 0),
     Rec(<<"(">> \o StrDruid \o <<")", "a">>, StrSkill, 0),
     Rec(<<"(">> \o StrAlchemist \o <<"^", "2", ")", "a">>, StrSkill, 0),
     Rec(<<"(">> \o StrConstructor \o <<")", "a">>, StrSkill, 0),
     Rec(StrClimbing, StrSkill, 0)}

CreateSheetItem == CreateItemFrom(SheetPool, MaxSheetItems)

\* game.i18n.localize("DCCCS.TabLabel")
TabLabelTitle == <<"DCCCS.TabLabel">>

\* _prepareContext: the label, the groups, the sorted group names and the
\* view model handed to the template; an exception of a helper ends it
PrepareContext ==
    /\ LET label == getCustomClassLabel(items)
           res == groupActorSkills(items)
           classLabel == getCustomClassLabel(items)
           sortedGroupNames == SortedGroupNames(res.grouped, classLabel.label)
       IN  out' = IF label.threw \/ res.threw \/ classLabel.threw
                  THEN [NoOut EXCEPT !.fn = "_prepareContext", !.threw = TRUE]
                  ELSE [fn |-> "_prepareContext",
                        threw |-> FALSE,
                        grouped |-> res.grouped,
                        occupational |-> res.occupational,
                        label |-> label.label,
                        sortedGroupNames |-> sortedGroupNames,
                        tabLabel |-> IF Truthy(label.label) THEN label.label.label
                                     ELSE TabLabelTitle,
                        groups |-> GroupsData(res, sortedGroupNames),
                        hasGroups |-> Len(GroupsData(res, sortedGroupNames)) > 0]
    /\ UNCHANGED <<name, ret, items, wizard, calls>>

NextSheet == CreateSheetItem \/ PrepareContext

SpecSheet == Init /\ [][NextSheet]_vars

-----------------------------------------------------------------------------
(* SpecTabs: the sheet asks for the configuration of its tabs *)

\* the tab groups _getTabsConfig is called for
TabGroups == {"sheet", "primary"}

\* _getTabsConfig: for the group "sheet" the label and the icon of the custom
\* class tab are set; for another group the tabs stay as the base class made
\* them (no label and no icon in out); an exception of a helper ends it
GetTabsConfig ==
    /\ \E group \in TabGroups :
          LET label == getCustomClassLabel(items)
              icon == getCustomClassIcon(items)
          IN  out' = IF group # "sheet"
                     THEN [NoOut EXCEPT !.fn = "_getTabsConfig"]
                     ELSE IF label.threw \/ icon.threw
                     THEN [NoOut EXCEPT !.fn = "_getTabsConfig", !.threw = TRUE]
                     ELSE [NoOut EXCEPT
                              !.fn = "_getTabsConfig",
                              !.label = label.label,
                              !.tabLabel = IF Truthy(label.label)
                                           THEN label.label.label
                                           ELSE TabLabelTitle,
                              !.icon = icon.icon]
    /\ UNCHANGED <<name, ret, items, wizard, calls>>

NextTabs == CreateIconItem \/ GetTabsConfig

SpecTabs == Init /\ [][NextTabs]_vars

-----------------------------------------------------------------------------
(* class-builder.js: the CustomClassBuilder dialog *)

\* The template of the dialog is not part of the sources. The fields and
\* buttons of a step are those the class comment and the README list for it:
\* class name and icon in step 1, the skills and their buttons in step 2,
\* "Create Class" in step 3. Nothing says where the buttons of _nextStep and
\* _prevStep stand, and the handlers have no guard of their own: they run in
\* whatever step the dialog is.

StrDefaultIconClass ==
    <<"f", "a", "-", "c", "i", "r", "c", "l", "e", "-", "e", "x", "c", "l", "a",
      "m", "a", "t", "i", "o", "n">>

\* the state the constructor leaves
NewBuilder ==
    [open |-> TRUE, step |-> 1, className |-> <<>>, iconClass |-> StrDefaultIconClass,
     skills |-> <<>>, nextSkillId |-> 1]

\* the index of the skill with the given id, 0 when there is none
\* (findIndex gives -1)
SkillIndex(skills, skillId) ==
    IF \E i \in 1..Len(skills) : skills[i].id = skillId
    THEN CHOOSE i \in 1..Len(skills) : skills[i].id = skillId
    ELSE 0

\* the input listener of the class name field
SetClassNameFrom(inputs) ==
    /\ wizard.open /\ wizard.step = 1
    /\ \E v \in inputs : wizard' = [wizard EXCEPT !.className = trim(v)]
    /\ UNCHANGED <<name, ret, items, out, calls>>

\* the listeners of the icon select and of the custom icon field
SetIconClassFrom(inputs) ==
    /\ wizard.open /\ wizard.step = 1
    /\ \E v \in inputs : wizard' = [wizard EXCEPT !.iconClass = v]
    /\ UNCHANGED <<name, ret, items, out, calls>>

\* the input listener of the fields of a skill: the weight is
\* parseInt(value) || 0, the other fields are the value as typed
SetSkillFieldFrom(inputs) ==
    /\ wizard.open /\ wizard.step = 2
    /\ \E i \in 1..Len(wizard.skills), f \in inputs :
          wizard' = [wizard EXCEPT !.skills[i] =
                        IF f.field = "name" THEN [@ EXCEPT !.name = f.value]
                        ELSE IF f.field = "weight" THEN [@ EXCEPT !.weight = f.value]
                        ELSE [@ EXCEPT !.description = f.value]]
    /\ UNCHANGED <<name, ret, items, out, calls>>

\* the skills whose name is blank
UnnamedSkills(skills) == {i \in 1..Len(skills) : trim(skills[i].name) = <<>>}

\* _nextStep returns after a warning
NextStepRefused(w) ==
    \/ w.step = 1 /\ trim(w.className) = <<>>
    \/ w.step = 2 /\ (Len(w.skills) = 0 \/ UnnamedSkills(w.skills) # {})

\* _nextStep with every step passing
NextStep_NoValidation ==
    /\ wizard.open
    /\ wizard.step < 3 + MaxStepDrift
    /\ wizard' = [wizard EXCEPT !.step = @ + 1]
    /\ UNCHANGED <<name, ret, items, out, calls>>

NextStep ==
    /\ wizard.open
    /\ wizard.step < 3 + MaxStepDrift
    /\ wizard' = IF NextStepRefused(wizard) THEN wizard
                 ELSE [wizard EXCEPT !.step = @ + 1]
    /\ UNCHANGED <<name, ret, items, out, calls>>

PrevStep ==
    /\ wizard.open
    /\ wizard.step > 1 - MaxStepDrift
    /\ wizard' = [wizard EXCEPT !.step = @ - 1]
    /\ UNCHANGED <<name, ret, items, out, calls>>

\* _addSkill with the id of the new skill not counted on
AddSkillUpTo_SameId(maxSkills, maxId) ==
    /\ wizard.open /\ wizard.step = 2
    /\ Len(wizard.skills) < maxSkills /\ wizard.nextSkillId <= maxId
    /\ wizard' = [wizard EXCEPT
                     !.skills = Append(@, [id |-> wizard.nextSkillId, name |-> <<>>,
                                           description |-> <<>>, weight |-> 0])]
    /\ UNCHANGED <<name, ret, items, out, calls>>

AddSkillUpTo(maxSkills, maxId) ==
    /\ wizard.open /\ wizard.step = 2
    /\ Len(wizard.skills) < maxSkills /\ wizard.nextSkillId <= maxId
    /\ wizard' = [wizard EXCEPT
                     !.skills = Append(@, [id |-> wizard.nextSkillId, name |-> <<>>,
                                           description |-> <<>>, weight |-> 0]),
                     !.nextSkillId = @ + 1]
    /\ UNCHANGED <<name, ret, items, out, calls>>

\* this.skills.filter(s => s.id !== skillId)
WithoutSkill(skills, skillId) ==
    LET Keep(sk) == sk.id # skillId
    IN  SelectSeq(skills, Keep)

\* the two entries at i and i + 1 change places
SwapWithNext(skills, i) ==
    [skills EXCEPT ![i] = skills[i + 1], ![i + 1] = skills[i]]

\* the list _moveSkillUp leaves: nothing moves when the id is not found or
\* the skill is the first
SkillsAfterMoveUp(skills, skillId) ==
    LET index == SkillIndex(skills, skillId)
    IN  IF index = 0 \/ index = 1 THEN skills
        ELSE SwapWithNext(skills, index - 1)

\* the list _moveSkillDown leaves: nothing moves when the id is not found or
\* the skill is the last
SkillsAfterMoveDown(skills, skillId) ==
    LET index == SkillIndex(skills, skillId)
    IN  IF index = 0 \/ index = Len(skills) THEN skills
        ELSE SwapWithNext(skills, index)

\* the button of the skill with id skillId, which a skill of the list may
\* bear or not
RemoveSkillUpTo(maxId) ==
    /\ wizard.open /\ wizard.step = 2
    /\ \E skillId \in 1..maxId :
          wizard' = [wizard EXCEPT !.skills = WithoutSkill(@, skillId)]
    /\ UNCHANGED <<name, ret, items, out, calls>>

MoveSkillUpUpTo(maxId) ==
    /\ wizard.open /\ wizard.step = 2
    /\ \E skillId \in 1..maxId :
          wizard' = [wizard EXCEPT !.skills = SkillsAfterMoveUp(@, skillId)]
    /\ UNCHANGED <<name, ret, items, out, calls>>

MoveSkillDownUpTo(maxId) ==
    /\ wizard.open /\ wizard.step = 2
    /\ \E skillId \in 1..maxId :
          wizard' = [wizard EXCEPT !.skills = SkillsAfterMoveDown(@, skillId)]
    /\ UNCHANGED <<name, ret, items, out, calls>>

\* String(n) of a positive integer, as a template literal writes it
RECURSIVE NumberToString(_)
NumberToString(n) ==
    IF n < 10 THEN <<Digits[n + 1]>>
    ELSE NumberToString(n \div 10) \o <<Digits[(n % 10) + 1]>>

StrBuilderNote ==
    <<"<", "p", ">", "C", "u", "s", "t", "o", "m", " ", "c", "l", "a", "s", "s",
      " ", "c", "r", "e", "a", "t", "e", "d", " ", "w", "i", "t", "h", " ", "D",
      "C", "C", " ", "C", "u", "s", "t", "o", "m", " ", "C", "l", "a", "s", "s",
      " ", "B", "u", "i", "l", "d", "e", "r", ".", "<", "/", "p", ">">>

\* the naming skill _createClass makes of the state of the dialog
NamingSkillData(w) ==
    [name |-> <<"(">> \o NAMING_TOKEN \o <<")">> \o w.className,
     type |-> StrSkill,
     description |->
        (IF w.iconClass # <<>>
         THEN StrOpenP \o StrIconColon \o <<" ">> \o w.iconClass \o StrCloseP
         ELSE <<>>)
        \o <<"<", "h", "3", ">">> \o w.className \o <<"<", "/", "h", "3", ">">>
        \o StrBuilderNote]

\* the name of the prefixed skill _createClass makes of the skill s
PrefixedSkillName(className, s) ==
    <<"(">> \o className
    \o (IF s.weight > 0 THEN <<"^">> \o NumberToString(s.weight) ELSE <<>>)
    \o <<")">> \o s.name

PrefixedSkillData(w, s) ==
    [name |-> PrefixedSkillName(w.className, s),
     type |-> StrSkill,
     description |-> IF trim(s.description) # <<>> THEN trim(s.description)
                     ELSE StrOpenP \o s.name \o StrCloseP]

\* _createClass up to Folder.create: the button is pressed, the folder is
\* asked for under the class name
ClickCreateClass ==
    /\ wizard.open /\ wizard.step = 3
    /\ Len(calls) < MaxCreateCalls
    /\ calls' = Append(calls, [pc |-> "folder", folderName |-> wizard.className,
                               documents |-> <<>>])
    /\ UNCHANGED <<name, ret, items, out, wizard>>

\* _createClass from the folder to the question whether to apply: the items
\* are made of the state of the dialog as it is now and created in the
\* folder, the dialog closes
CreateClassItems ==
    /\ \E k \in 1..Len(calls) :
          /\ calls[k].pc = "folder"
          /\ calls' = [calls EXCEPT
                ![k].pc = "confirm",
                ![k].documents =
                    <<NamingSkillData(wizard)>>
                    \o [i \in 1..Len(wizard.skills) |->
                           PrefixedSkillData(wizard, wizard.skills[i])]]
    /\ wizard' = [wizard EXCEPT !.open = FALSE]
    /\ UNCHANGED <<name, ret, items, out>>

\* the items of the folder as createEmbeddedDocuments adds them to the actor
RECURSIVE Embedded(_, _)
Embedded(its, documents) ==
    IF documents = <<>> THEN its
    ELSE Embedded(Append(its, [id |-> Len(its) + 1, name |-> documents[1].name,
                               type |-> documents[1].type, updateTime |-> 0,
                               description |-> documents[1].description]),
                  Tail(documents))

\* _createClass from the answer on: with yes the items of the folder are
\* created on the actor; the folder of a call that has ended is followed no
\* further
ConfirmApply ==
    /\ \E k \in 1..Len(calls), apply \in BOOLEAN :
          /\ calls[k].pc = "confirm"
          /\ calls' = [calls EXCEPT ![k] = [pc |-> "done", folderName |-> <<>>,
                                            documents |-> <<>>]]
          /\ items' = IF apply THEN Embedded(items, calls[k].documents) ELSE items
    /\ out' = NoOut
    /\ UNCHANGED <<name, ret, wizard>>

\* the button of the sheet that opens a new builder; one builder is followed
\* at a time, so the next one opens when the last has made its items
LaunchBuilder ==
    /\ ~wizard.open
    /\ \A k \in 1..Len(calls) : calls[k].pc # "folder"
    /\ Len(calls) < MaxCreateCalls
    /\ wizard' = NewBuilder
    /\ UNCHANGED <<name, ret, items, out, calls>>

-----------------------------------------------------------------------------
(* SpecWizard: the steps and the skill list of the class builder *)

StrRage == <<"R", "a", "g", "e">>

ClassNameInputs == {<<>>, <<" ">>, StrBard}

IconInputs == {<<>>, SubSeq(DescAxeBattle, 10, 22)}

SkillFieldInputs ==
    {[field |-> "name", value |-> <<" ">>],
     [field |-> "name", value |-> StrRage],
     [field |-> "weight", value |-> 10],
     [field |-> "description", value |-> <<"x">>]}

InitWizard ==
    /\ name = <<>>
    /\ ret = NoCall
    /\ items = <<>>
    /\ out = NoOut
    /\ wizard = NewBuilder
    /\ calls = <<>>

SetClassName == SetClassNameFrom(ClassNameInputs)
SetIconClass == SetIconClassFrom(IconInputs)
SetSkillField == SetSkillFieldFrom(SkillFieldInputs)
AddSkill == AddSkillUpTo(MaxSkills, MaxSkillId)
RemoveSkill == RemoveSkillUpTo(MaxSkillId)
MoveSkillUp == MoveSkillUpUpTo(MaxSkillId)
MoveSkillDown == MoveSkillDownUpTo(MaxSkillId)

NextWizard ==
    \/ SetClassName \/ SetIconClass \/ SetSkillField
    \/ NextStep \/ PrevStep
    \/ AddSkill \/ RemoveSkill \/ MoveSkillUp \/ MoveSkillDown

SpecWizard == InitWizard /\ [][NextWizard]_vars

-----------------------------------------------------------------------------
(* SpecBuilder: classes are made with the class builder and applied *)

StrElfParen == <<"E", "l", "f", ")", "x">>

BuilderClassNameInputs == {StrRanger, NamingLiteral, StrElfParen}

BuilderSkillFieldInputs ==
    {[field |-> "name", value |-> StrRage],
     [field |-> "weight", value |-> 10],
     [field |-> "weight", value |-> -3]}

\* the naming record the actor may hold before the builder is used
BuilderPool ==
    {RecD(<<"(">> \o NAMING_TOKEN \o <<")">> \o StrBard, StrSkill, 1, DescBrands)}

CreateBuilderItem ==
    /\ calls = <<>>
    /\ CreateItemFrom(BuilderPool, 1)

SetBuilderClassName == SetClassNameFrom(BuilderClassNameInputs)
SetBuilderSkillField == SetSkillFieldFrom(BuilderSkillFieldInputs)
AddBuilderSkill == AddSkillUpTo(MaxBuilderSkills, MaxBuilderSkillId)
RemoveBuilderSkill == RemoveSkillUpTo(MaxBuilderSkillId)

NextBuilder ==
    \/ CreateBuilderItem
    \/ SetBuilderClassName \/ SetBuilderSkillField
    \/ NextStep \/ PrevStep
    \/ AddBuilderSkill \/ RemoveBuilderSkill
    \/ ClickCreateClass \/ CreateClassItems \/ ConfirmApply \/ LaunchBuilder

SpecBuilder == InitWizard /\ [][NextBuilder]_vars

-----------------------------------------------------------------------------
(* Properties *)

\* s without its leading and trailing blanks: from the first to the last
\* character that is no white space
Trimmed(s) ==
    LET solid == {i \in 1..Len(s) : ~IsWhiteSpace(s[i])}
    IN  IF solid = {} THEN <<>> ELSE SubSeq(s, SetMin(solid), SetMax(solid))

RECURSIVE Pow10(_)
Pow10(k) == IF k = 0 THEN 1 ELSE 10 * Pow10(k - 1)

RECURSIVE DecimalValue(_)
DecimalValue(d) ==
    IF d = <<>> THEN 0
    ELSE DigitValue(d[1]) * Pow10(Len(d) - 1) + DecimalValue(Tail(d))

HasLineTerminator(s) == \E i \in 1..Len(s) : IsLineTerminator(s[i])

\* s without its leading blanks
AfterBlanks(s) ==
    LET solid == {i \in 1..Len(s) : ~IsWhiteSpace(s[i])}
    IN  IF solid = {} THEN <<>> ELSE SubSeq(s, SetMin(solid), Len(s))

\* the ways to read n as "(" + class text without ")" + optional "^" + digits
\* + ")" + rest; digits = <<>> stands for no "^digits" part
PrefixedReadings(n) ==
    LET closes == {p \in 2..Len(n) : n[p] = ")"}
    IN  IF Len(n) = 0 \/ n[1] # "(" \/ closes = {} THEN {}
        ELSE LET p == SetMin(closes)
                 X == SubSeq(n, 2, p - 1)
                 R == SubSeq(n, p + 1, Len(n))
                 marks == {j \in 1..(Len(X) - 1) :
                              /\ X[j] = "^"
                              /\ \A i \in (j + 1)..Len(X) : IsDigit(X[i])}
             IN  {[cls |-> X, digits |-> <<>>, rest |-> R]}
                 \cup {[cls |-> SubSeq(X, 1, j - 1),
                        digits |-> SubSeq(X, j + 1, Len(X)),
                        rest |-> R] : j \in marks}

ReadAs(d) ==
    [isNull |-> FALSE, className |-> Trimmed(d.cls),
     weight |-> DecimalValue(d.digits), skillName |-> Trimmed(d.rest)]

ExBarbarianNaturalArmor ==
    <<"(">> \o StrBarbarian \o <<"^", "1", "0", ")">> \o StrNaturalArmor
ExRangerTrack == <<"(">> \o StrRanger \o <<")">> \o StrTrack

\* C6 as stated: every name of the form "(" class text [^digits] ")" rest
\* parses to the trimmed class text, the value of the digits (0 without
\* them) and the trimmed rest, and every other name parses to null.
C6_AsStated ==
    ret.fn = "parsePrefixedSkillName" =>
        IF PrefixedReadings(name) = {} THEN ret.parsed.isNull
        ELSE \E d \in PrefixedReadings(name) : ret.parsed = ReadAs(d)

\* the readings the pattern accepts: at least one character of class text,
\* and no line terminator in the rest once its leading blanks are dropped
AcceptedReadings(n) ==
    {d \in PrefixedReadings(n) :
        d.cls # <<>> /\ ~HasLineTerminator(AfterBlanks(d.rest))}

\* C6 (amended): parsePrefixedSkillName returns, for every name of the form
\* "(" + class text of at least one character without ")" + optional "^" +
\* digits + ")" + rest with no line terminator after its leading blanks, the
\* trimmed class text, the value of the digits (0 without them, never
\* negative) and the trimmed rest of one such reading; for every other name
\* it returns null. "(Barbarian^10)Natural Armor" gives (Barbarian, 10,
\* Natural Armor) and "(Ranger)Track" gives (Ranger, 0, Track).
C6_PrefixedParse ==
    ret.fn = "parsePrefixedSkillName" =>
        /\ IF AcceptedReadings(name) = {} THEN ret.parsed.isNull
           ELSE \E d \in AcceptedReadings(name) : ret.parsed = ReadAs(d)
        /\ ret.parsed.weight >= 0
        /\ name = ExBarbarianNaturalArmor =>
              ret.parsed = [isNull |-> FALSE, className |-> StrBarbarian,
                            weight |-> 10, skillName |-> StrNaturalArmor]
        /\ name = ExRangerTrack =>
              ret.parsed = [isNull |-> FALSE, className |-> StrRanger,
                            weight |-> 0, skillName |-> StrTrack]

C6_Witness ==
    /\ ret.fn = "parsePrefixedSkillName"
    /\ name = ExBarbarianNaturalArmor
    /\ ret.parsed.weight = 10

\* the remaining text of n when n reads "(" + blanks + the marker in any
\* letter case + blanks + ")" + remaining text
NamingRemainders(n) ==
    LET m == Len(NAMING_TOKEN)
    IN  {SubSeq(n, p + 1, Len(n)) : p \in {p \in (m + 2)..Len(n) :
            /\ n[1] = "("
            /\ n[p] = ")"
            /\ \E a \in 0..(p - m - 2) :
                  /\ \A i \in 2..(1 + a) : IsWhiteSpace(n[i])
                  /\ \A i \in 1..m :
                        toLowerCase(<<n[1 + a + i]>>) = toLowerCase(<<NAMING_TOKEN[i]>>)
                  /\ \A i \in (2 + a + m)..(p - 1) : IsWhiteSpace(n[i])}}

\* C7 as stated: the name is trimmed first, so blanks around the whole name
\* do not matter (read with a remaining text of at least one character and
\* no line terminator).
C7_AsStated ==
    ret.fn = "parseNamingItem" =>
        \A R \in NamingRemainders(Trimmed(name)) :
            (R # <<>> /\ ~HasLineTerminator(R)) =>
                ~ret.label.isNull /\ ret.label.label = Trimmed(R)

ExNamingBard == <<"(">> \o NAMING_TOKEN \o <<")">> \o StrBard
ExNamingBardLower == <<"(">> \o NamingLiteral \o <<")", " ">> \o StrBard

\* C7 (amended): every name that, as written (a name is not trimmed, so
\* nothing may precede the "("), has the form "(" + blanks + the marker in
\* any letter case + blanks + ")" + remaining text of at least one character
\* and without line terminator is recognised by parseNamingItem, with the
\* trimmed remaining text as its label; "(CUSTOMCLASS)Bard",
\* "(customclass) Bard" and the same with blanks after them give "Bard".
C7_NamingParse ==
    ret.fn = "parseNamingItem" =>
        /\ \A R \in NamingRemainders(name) :
              (R # <<>> /\ ~HasLineTerminator(R)) =>
                  ~ret.label.isNull /\ ret.label.label = Trimmed(R)
        /\ name \in {ExNamingBard, ExNamingBardLower,
                     ExNamingBard \o <<" ">>, ExNamingBardLower \o <<" ">>} =>
              ret.label = [isNull |-> FALSE, label |-> StrBard]

C7_Witness ==
    /\ ret.fn = "parseNamingItem"
    /\ name = ExNamingBardLower \o <<" ">>
    /\ ret.label.label = StrBard

-----------------------------------------------------------------------------
(* Properties of groupActorSkills *)

\* the characters in the order of their code units
CodeUnitOrder ==
    <<"\t", "\n", "\r", " ", "!", "#", "$", "%", "&", "(", ")", "*", "+", ",",
      "-", ".", "/">> \o Digits \o <<":", ";", "<", "=", ">", "?", "@">>
    \o Upper \o <<"[", "]", "^", "_">> \o Lower \o <<"{", "|", "}", "~">>

CodeUnit(c) == CHOOSE i \in 1..Len(CodeUnitOrder) : CodeUnitOrder[i] = c

\* a is case-insensitively smaller than b: at the first place where the
\* lower-cased strings differ a has the smaller character, or a is a proper
\* prefix of b
FoldedLess(a, b) ==
    \E i \in 1..(Len(a) + 1) :
        /\ i <= Len(b)
        /\ \A j \in 1..(i - 1) : toLowerCase(a)[j] = toLowerCase(b)[j]
        /\ \/ i = Len(a) + 1
           \/ CodeUnit(toLowerCase(a)[i]) < CodeUnit(toLowerCase(b)[i])

Returned(fn) == out.fn = fn /\ ~out.threw

\* the ids of the records in class group g of the result, and in occupational
GroupIds(g) == {out.grouped[g].members[i].item.id : i \in 1..Len(out.grouped[g].members)}
OccupationalIds == {out.occupational[i].id : i \in 1..Len(out.occupational)}
InSomeGroup(id) == \E g \in 1..Len(out.grouped) : id \in GroupIds(g)

IsSkillKind(r) == toLowerCase(TypeOrEmpty(r.type)) = toLowerCase(StrSkill)
IsString(n) == n # Undefined
MatchesNamingPattern(n) == IsString(n) /\ REGEX_NAMING_ITEM(n).matched
IsGuardedOut(n) ==
    /\ IsString(n)
    /\ ~parsePrefixedSkillName(n).isNull
    /\ toLowerCase(parsePrefixedSkillName(n).className) = toLowerCase(NAMING_TOKEN)

\* how often record id stands in the result
Occurrences(id) ==
    Cardinality({<<g, i>> \in (1..Len(out.grouped)) \X (1..MaxItems + 1) :
                    /\ i <= Len(out.grouped[g].members)
                    /\ out.grouped[g].members[i].item.id = id})
    + Cardinality({i \in 1..Len(out.occupational) : out.occupational[i].id = id})

\* the partition of the records of the actor by a result
IsPartition ==
    /\ \A g, h \in 1..Len(out.grouped) :
          /\ out.grouped[g].members # <<>>
          /\ out.grouped[g].className = out.grouped[h].className => g = h
    /\ \A k \in 1..Len(items) :
          LET r == items[k]
          IN  IF ~IsSkillKind(r) \/ MatchesNamingPattern(r.name) \/ IsGuardedOut(r.name)
              THEN Occurrences(r.id) = 0
              ELSE /\ Occurrences(r.id) = 1
                   /\ IF parsePrefixedSkillName(r.name).isNull
                      THEN r.id \in OccupationalIds
                      ELSE \E g \in 1..Len(out.grouped) :
                              /\ out.grouped[g].className =
                                    parsePrefixedSkillName(r.name).className
                              /\ r.id \in GroupIds(g)

\* C3: groupActorSkills partitions its input: a record that is no skill is
\* nowhere in the result, and every skill record that is neither a naming
\* record nor guarded out is exactly once in the result: in the group keyed
\* by its class name as written when it is class-prefixed, in occupational
\* otherwise; no group is empty.
C3_Partition ==
    out.fn = "groupActorSkills" => ~out.threw /\ IsPartition

\* what holds of C3: every result that groupActorSkills returns is the partition
C3_PartitionWhenReturned ==
    Returned("groupActorSkills") => IsPartition

\* a class-prefixed skill record that is in no result: the record created
\* after it bears the class name "constructor" and the call raised a TypeError
C3_Witness ==
    /\ out.fn = "groupActorSkills"
    /\ out.threw
    /\ Len(items) = 2
    /\ items[1].name = <<"(", "B", ")", "A">>
    /\ items[2].name = <<"(">> \o StrConstructor \o <<")", "a">>
    /\ Occurrences(1) = 0

C5_GuardLaw ==
    Returned("groupActorSkills") =>
        \A k \in 1..Len(items) :
            (IsSkillKind(items[k]) /\ IsGuardedOut(items[k].name)) =>
                ~InSomeGroup(items[k].id) /\ items[k].id \notin OccupationalIds

ExGuarded == <<"(">> \o StrCustomClass \o <<"^", "5", ")", "F", "o", "o">>

C5_Witness ==
    /\ Returned("groupActorSkills")
    /\ Len(items) = 2
    /\ items[1].name = ExGuarded
    /\ parsePrefixedSkillName(items[1].name).weight = 5
    /\ OccupationalIds = {2}
    /\ out.grouped = <<>>

\* C8: for every collection of records whose names are strings, whatever the
\* class-name text, groupActorSkills returns a result and raises no exception.
C8_Total ==
    (out.fn = "groupActorSkills" /\ \A k \in 1..Len(items) : IsString(items[k].name))
        => ~out.threw

\* the one skill record "(constructor)a": grouped["constructor"] is the
\* inherited Object, it has no push, the call raised a TypeError
C8_Witness ==
    /\ out.fn = "groupActorSkills"
    /\ out.threw
    /\ Len(items) = 1
    /\ IsSkillKind(items[1])
    /\ parsePrefixedSkillName(items[1].name).className = StrConstructor

\* C9: a skill record whose name is empty or absent is treated as Plain:
\* groupActorSkills completes and the record is in occupational (taken over
\* the actors with no class name that C8 fails on).
C9_EmptyOrAbsentName ==
    (/\ out.fn = "groupActorSkills"
     /\ \A k \in 1..Len(items) :
           IsString(items[k].name) =>
               parsePrefixedSkillName(items[k].name).className \notin ObjectPrototypeKeys)
        => \A k \in 1..Len(items) :
              (IsSkillKind(items[k]) /\ items[k].name \in {<<>>, Undefined}) =>
                  ~out.threw /\ items[k].id \in OccupationalIds

\* what holds of C9: a skill record with the empty name is in occupational
C9_EmptyNameIsPlain ==
    Returned("groupActorSkills") =>
        \A k \in 1..Len(items) :
            (IsSkillKind(items[k]) /\ items[k].name = <<>>) =>
                items[k].id \in OccupationalIds

\* the one skill record without a name: name.match raised a TypeError
C9_Witness ==
    /\ out.fn = "groupActorSkills"
    /\ out.threw
    /\ Len(items) = 1
    /\ IsSkillKind(items[1])
    /\ items[1].name = Undefined

-----------------------------------------------------------------------------
(* Properties of getCustomClassLabel *)

\* the skill records whose name parses as a naming token
NamingRecords ==
    {k \in 1..Len(items) : IsSkillKind(items[k]) /\ MatchesNamingPattern(items[k].name)}

\* the label of a record that no record of S is later than
LabelOfLatest(S) ==
    \E k \in S :
        /\ out.label = [isNull |-> FALSE, label |-> Trimmed(REGEX_NAMING_ITEM(items[k].name).g1)]
        /\ \A h \in S : items[h].updateTime <= items[k].updateTime

LabelledNamingRecords ==
    {k \in NamingRecords : Trimmed(REGEX_NAMING_ITEM(items[k].name).g1) # <<>>}

-----------------------------------------------------------------------------
(* Properties of getCustomClassIcon *)

\* the winning naming record: the latest of the naming records that carry a
\* label, the last of them in collection order when several are the latest
WinningRecord ==
    CHOOSE k \in LabelledNamingRecords :
        \A h \in LabelledNamingRecords :
            \/ items[h].updateTime < items[k].updateTime
            \/ items[h].updateTime = items[k].updateTime /\ h <= k

WinningDescription == DescriptionOrEmpty(items[WinningRecord].description)

\* the places of d where a paragraph <p> icon: token </p> begins
DirectiveParagraphs(d) == {i \in 1..Len(d) : IconMatchAt(d, i)}

\* t with the default style family when it starts with none of the three
WithDefaultFamily(t) ==
    IF startsWith(t, StrFaSolid) \/ startsWith(t, StrFaRegular) \/ startsWith(t, StrFaBrands)
    THEN t
    ELSE StrFaSolid \o <<" ">> \o t

\* the tokens "fa-" + letters, digits or hyphens of the directives of d
DirectiveTokens(d) ==
    {t \in {IconGroup(d, i) : i \in DirectiveParagraphs(d)} :
        Len(t) >= 4 /\ startsWith(t, StrFa)}

-----------------------------------------------------------------------------
(* Properties of the sheet *)

GroupKeys == {out.grouped[g].className : g \in 1..Len(out.grouped)}

\* the group name equals the preferred class name, ignoring case
IsPreferred(k) == toLowerCase(k) = toLowerCase(out.label.label)

\* the names at the places P of the sorted group names ascend
Ascending(P) ==
    \A i, j \in P : i < j => ~FoldedLess(out.sortedGroupNames[j], out.sortedGroupNames[i])

\* C2: the sorted group names of _prepareContext are the group keys; with a
\* preferred class name (the label of the naming record) every key that
\* equals it, ignoring case, stands before every key that does not, and the
\* other keys ascend case-insensitively; without one all keys ascend.
\* Preferred "Barbarian" with the keys Barbarian, Druid, Alchemist gives
\* Barbarian, Alchemist, Druid.
C2_GroupOrder ==
    Returned("_prepareContext") =>
        LET n == Len(out.sortedGroupNames)
            names == out.sortedGroupNames
        IN  /\ n = Len(out.grouped)
            /\ {names[i] : i \in 1..n} = GroupKeys
            /\ IF out.label.isNull \/ out.label.label = <<>>
               THEN Ascending(1..n)
               ELSE /\ \A i, j \in 1..n :
                          (IsPreferred(names[i]) /\ ~IsPreferred(names[j])) => i < j
                    /\ Ascending({i \in 1..n : ~IsPreferred(names[i])})
            /\ (out.label.label = StrBarbarian
                /\ GroupKeys = {StrBarbarian, StrDruid, StrAlchemist})
                  => names = <<StrBarbarian, StrAlchemist, StrDruid>>

C2_Witness ==
    /\ Returned("_prepareContext")
    /\ Len(items) = 4
    /\ out.label.label = StrBarbarian
    /\ items[2].name = <<"(">> \o StrDruid \o <<")", "a">>
    /\ items[3].name = <<"(">> \o StrAlchemist \o <<"^", "2", ")", "a">>
    /\ out.sortedGroupNames = <<StrBarbarian, StrAlchemist, StrDruid>>

-----------------------------------------------------------------------------
(* Properties of _createClass *)

\* the calls of _createClass that have made their items
MadeItems == {k \in 1..Len(calls) : calls[k].pc = "confirm"}

\* the prefixed-skill records of call k: all its items but the naming skill
PrefixedDocuments(k) == 2..Len(calls[k].documents)

\* C12: no prefixed-skill record a call of _createClass has made has a class
\* name that equals CUSTOMCLASS ignoring case.
C12_NeverReserved ==
    \A k \in MadeItems : \A i \in PrefixedDocuments(k) :
        ~IsGuardedOut(calls[k].documents[i].name)

\* the dialog passed both gates with the class name "customclass" and one
\* skill "Rage", and _createClass made "(customclass)Rage"
C12_Witness ==
    /\ MadeItems # {}
    /\ ~wizard.open /\ wizard.step = 3
    /\ wizard.className = NamingLiteral
    /\ \E k \in MadeItems :
          /\ Len(calls[k].documents) = 2
          /\ calls[k].documents[2].name = <<"(">> \o NamingLiteral \o <<")">> \o StrRage

\* every call of _createClass has come to its end
AllCallsDone == calls # <<>> /\ \A k \in 1..Len(calls) : calls[k].pc = "done"

\* C13: when the calls of _createClass have ended, whatever was applied, the
\* actor holds at most one skill record whose name is a naming token.
C13_AtMostOneNamingRecord == AllCallsDone => Cardinality(NamingRecords) <= 1

\* one call applied on an actor that held the naming record of Bard
C13_Witness ==
    /\ AllCallsDone
    /\ Len(calls) = 1
    /\ Len(items) = 3
    /\ items[1].name = <<"(">> \o NAMING_TOKEN \o <<")">> \o StrBard
    /\ items[2].name = <<"(">> \o NAMING_TOKEN \o <<")">> \o StrRanger
    /\ NamingRecords = {1, 2}

\* the dialog accepts the values of w: the class name and every skill name
\* are not blank
Accepted(w) ==
    /\ Trimmed(w.className) # <<>>
    /\ w.skills # <<>>
    /\ \A i \in 1..Len(w.skills) : Trimmed(w.skills[i].name) # <<>>

\* C14: the items of a call are made of the values of the dialog, which
\* stay as they are once it is closed; when the dialog accepts them, the
\* name of each prefixed skill is parsed by parsePrefixedSkillName to the
\* class name, the weight and the skill name of the dialog, and the name of
\* the naming skill is parsed by parseNamingItem to the class name.
C14_RoundTrip ==
    \A k \in MadeItems :
        (~wizard.open /\ Accepted(wizard)) =>
            /\ Len(calls[k].documents) = Len(wizard.skills) + 1
            /\ parseNamingItem(calls[k].documents[1].name)
                  = [isNull |-> FALSE, label |-> wizard.className]
            /\ \A i \in 1..Len(wizard.skills) :
                  parsePrefixedSkillName(calls[k].documents[i + 1].name)
                     = [isNull |-> FALSE, className |-> wizard.className,
                        weight |-> wizard.skills[i].weight,
                        skillName |-> wizard.skills[i].name]

\* the class name "Elf)x" with the skill "Rage" gives "(Elf)x)Rage"
C14_Witness ==
    /\ ~wizard.open /\ Accepted(wizard)
    /\ wizard.className = StrElfParen
    /\ \E k \in MadeItems :
          /\ Len(calls[k].documents) = 2
          /\ calls[k].documents[2].name
                = <<"(">> \o StrElfParen \o <<")">> \o StrRage
          /\ parsePrefixedSkillName(calls[k].documents[2].name).className
                = <<"E", "l", "f">>

-----------------------------------------------------------------------------
(* Properties of the three functions together *)

EngineCalls == {"groupActorSkills", "getCustomClassLabel", "getCustomClassIcon"}

\* what a call of fn gives on the collection its, whatever was called before
FreshResult(fn, its) ==
    IF fn = "groupActorSkills"
    THEN [NoOut EXCEPT !.fn = fn,
                       !.threw = groupActorSkills(its).threw,
                       !.grouped = groupActorSkills(its).grouped,
                       !.occupational = groupActorSkills(its).occupational]
    ELSE IF fn = "getCustomClassLabel"
    THEN [NoOut EXCEPT !.fn = fn,
                       !.threw = getCustomClassLabel(its).threw,
                       !.label = getCustomClassLabel(its).label]
    ELSE [NoOut EXCEPT !.fn = fn,
                       !.threw = getCustomClassIcon(its).threw,
                       !.icon = getCustomClassIcon(its).icon]

C16_OccupationalOrder ==
    Returned("groupActorSkills") =>
        \A i, j \in 1..Len(out.occupational) :
            i < j => ~FoldedLess(out.occupational[j].name, out.occupational[i].name)

\* the records "b", "A" and "" come out as "", "A", "b"
C16_Witness ==
    /\ Returned("groupActorSkills")
    /\ Len(items) = 3
    /\ items[1].name = <<"b">> /\ items[2].name = <<"A">> /\ items[3].name = <<>>
    /\ Len(out.occupational) = 3
    /\ out.occupational[1].id = 3
    /\ out.occupational[2].id = 2
    /\ out.occupational[3].id = 1

-----------------------------------------------------------------------------
(* Properties of the displayed group list *)

\* the ids of the records of entry e of the displayed list, in their order
EntryIds(e) == [j \in 1..Len(out.groups[e].skills) |-> out.groups[e].skills[j].item.id]

\* the ids of the members of the class group with key k, in their order
MemberIds(k) ==
    LET g == CHOOSE g \in 1..Len(out.grouped) : out.grouped[g].className = k
    IN  [j \in 1..Len(out.grouped[g].members) |-> out.grouped[g].members[j].item.id]

\* C17: the displayed list of _prepareContext has one entry per class group,
\* in the order of the sorted group names and with the members of the group,
\* and then, exactly when there is an occupational skill, one last entry
\* with the occupational skills; no class group stands after that entry.
C17_DisplayedList ==
    Returned("_prepareContext") =>
        LET n == Len(out.sortedGroupNames)
        IN  /\ Len(out.groups) = n + (IF Len(out.occupational) > 0 THEN 1 ELSE 0)
            /\ \A i \in 1..n :
                  /\ out.groups[i].className = out.sortedGroupNames[i]
                  /\ out.groups[i].className \in GroupKeys
                  /\ EntryIds(i) = MemberIds(out.sortedGroupNames[i])
            /\ Len(out.occupational) > 0 =>
                  /\ out.groups[n + 1].className = OccupationalSkillsTitle
                  /\ EntryIds(n + 1)
                        = [j \in 1..Len(out.occupational) |-> out.occupational[j].id]
            /\ out.hasGroups = (out.groups # <<>>)

\* Climbing with skills of two classes: Alchemist, Druid, then the
\* occupational skills
C17_Witness ==
    /\ Returned("_prepareContext")
    /\ Len(items) = 3
    /\ items[1].name = StrClimbing
    /\ Len(out.groups) = 3
    /\ out.groups[1].className = StrAlchemist
    /\ out.groups[2].className = StrDruid
    /\ out.groups[3].className = OccupationalSkillsTitle
    /\ EntryIds(3) = <<1>>

-----------------------------------------------------------------------------
(* Properties of the steps and the skill list of the class builder *)

\* C18: the step of the dialog is 1, 2 or 3 after any sequence of _nextStep
\* and _prevStep.
C18_StepBound == wizard.step \in {1, 2, 3}

\* _prevStep was run in step 1
C18_Witness == wizard.open /\ wizard.step = 0

\* the name is empty after trimming
Blank(s) == Trimmed(s) = <<>>

\* the cases in which _nextStep is to leave the dialog as it is
GateCloses(w) ==
    \/ w.step = 1 /\ Blank(w.className)
    \/ w.step = 2 /\ w.skills = <<>>
    \/ w.step = 2 /\ \E i \in 1..Len(w.skills) : Blank(w.skills[i].name)

\* C19: _nextStep leaves step, className, iconClass, skills and nextSkillId
\* as they are in step 1 with a blank class name and in step 2 with no skill
\* or with a skill of blank name; in every other case it adds 1 to step and
\* changes nothing else. So the step never grows in another way.
C19_ValidationGate ==
    [][/\ NextStep =>
             wizard' = IF GateCloses(wizard) THEN wizard
                       ELSE [wizard EXCEPT !.step = wizard.step + 1]
       /\ wizard'.step > wizard.step =>
             /\ ~GateCloses(wizard)
             /\ wizard' = [wizard EXCEPT !.step = wizard.step + 1]]_vars

\* step 3 was reached through both gates, with a class name and two named
\* skills
C19_Witness ==
    /\ wizard.step = 3
    /\ wizard.className = StrBard
    /\ Len(wizard.skills) = 2
    /\ \A i \in 1..2 : wizard.skills[i].name = StrRage

\* the ids of the skills of the list, in their order
SkillIds(skills) == [i \in 1..Len(skills) |-> skills[i].id]

\* the entries of the list as a set
SkillSet(skills) == {skills[i] : i \in 1..Len(skills)}

\* t is s without its entry at place p
IsWithoutPlace(t, s, p) ==
    /\ Len(t) = Len(s) - 1
    /\ \A i \in 1..Len(t) : t[i] = IF i < p THEN s[i] ELSE s[i + 1]

\* t is s with the entries at places p and p + 1 in each other's place
IsNeighbourSwap(t, s, p) ==
    /\ Len(t) = Len(s)
    /\ t[p] = s[p + 1] /\ t[p + 1] = s[p]
    /\ \A i \in 1..Len(s) : (i # p /\ i # p + 1) => t[i] = s[i]

\* C20: the ids of the skills are pairwise distinct and each is smaller than
\* nextSkillId; _removeSkill takes away the entry with the given id and no
\* other; _moveSkillUp and _moveSkillDown put the entry with the given id
\* in the place of its neighbour and the neighbour in its place, keep the
\* same entries, and change nothing for the first entry moved up, the last
\* moved down or an id no entry has.
C20_SkillIds ==
    LET s == wizard.skills
        n == Len(wizard.skills)
    IN  /\ \A i, j \in 1..n : i # j => s[i].id # s[j].id
        /\ \A i \in 1..n : s[i].id < wizard.nextSkillId
        /\ \A id \in 1..MaxSkillId :
              /\ (\A i \in 1..n : s[i].id # id) =>
                    /\ WithoutSkill(s, id) = s
                    /\ SkillsAfterMoveUp(s, id) = s
                    /\ SkillsAfterMoveDown(s, id) = s
              /\ \A p \in 1..n : s[p].id = id =>
                    /\ IsWithoutPlace(WithoutSkill(s, id), s, p)
                    /\ SkillSet(SkillsAfterMoveUp(s, id)) = SkillSet(s)
                    /\ SkillSet(SkillsAfterMoveDown(s, id)) = SkillSet(s)
                    /\ IF p = 1 THEN SkillsAfterMoveUp(s, id) = s
                       ELSE IsNeighbourSwap(SkillsAfterMoveUp(s, id), s, p - 1)
                    /\ IF p = n THEN SkillsAfterMoveDown(s, id) = s
                       ELSE IsNeighbourSwap(SkillsAfterMoveDown(s, id), s, p)

\* skills 1 and 2 were added, 1 removed, 3 added and moved up
C20_Witness ==
    /\ SkillIds(wizard.skills) = <<3, 2>>
    /\ wizard.nextSkillId = 4

-----------------------------------------------------------------------------
(* Properties of _getTabsConfig *)

\* the custom class tab was given its label and icon
TabWasSet == Returned("_getTabsConfig") /\ out.icon # <<>>

\* the icon getCustomClassIcon makes of the description of record k
IconOfRecord(k) ==
    IconWithFamily(parseCustomClassIcon(DescriptionOrEmpty(items[k].description)))

\* C21: the label and the icon that _getTabsConfig gives the custom class tab
\* are those of one and the same naming record of the actor; when no naming
\* record counts, the label is the title of the tab and the icon the default
\* icon, so neither is taken from a record.
C21_SameRecord ==
    TabWasSet =>
        IF LabelledNamingRecords = {}
        THEN out.tabLabel = TabLabelTitle /\ out.icon = DEFAULT_ICON
        ELSE \E k \in LabelledNamingRecords :
                /\ out.tabLabel = Trimmed(REGEX_NAMING_ITEM(items[k].name).g1)
                /\ out.icon = IconOfRecord(k)

\* Ranger with a brands icon and, later, Bard with the battle axe: the tab
\* shows Bard with the battle axe
C21_Witness ==
    /\ TabWasSet
    /\ Len(items) = 2
    /\ items[1].name = <<"(">> \o NamingLiteral \o <<")", " ">> \o StrRanger
    /\ items[1].description = DescBrands
    /\ items[2].name = <<"(">> \o NAMING_TOKEN \o <<")">> \o StrBard
    /\ items[2].description = DescAxeBattle
    /\ out.tabLabel = StrBard
    /\ out.icon = StrFaSolid \o <<" ">> \o SubSeq(DescAxeBattle, 10, 22)

=============================================================================
